---- MODULE Spec2Model ----
(***************************************************************************)
(* A model of the EduBridge front end: the AuthProvider (session restore,  *)
(* mock login, logout), the Login page, the ProtectedRoute, DashboardLayout *)
(* and DashboardRouter route composition, the AppSidebar menus, and the    *)
(* list filters of the AI Feedback and Student Papers pages.               *)
(*                                                                         *)
(* JavaScript values are modelled as follows: an object is a record, null  *)
(* is the record `null`, a string that is only stored or compared is a TLA+*)
(* string, a string that is searched is a sequence of one-character        *)
(* strings, and the text held by localStorage is a record that says whether*)
(* JSON.parse accepts it and what it yields.                               *)
(***************************************************************************)
EXTENDS Integers, Sequences, FiniteSets, TLC

\* ------------------------------------------------------------------------
\* Authentication: AuthContext.tsx
\* ------------------------------------------------------------------------

\* type UserRole = 'teacher' | 'parent' | 'student'
UserRole == {"teacher", "parent", "student"}

\* JavaScript null
null == [jsnull |-> TRUE]

\* const mockUsers: Record<UserRole, User>
mockUsers ==
  [teacher |-> [id |-> "teacher-1", name |-> "Ms. Sarah Johnson",
                role |-> "teacher", email |-> "sarah.johnson@edubridge.com",
                avatar |-> "/api/placeholder/40/40",
                classId |-> "class-5a", subject |-> "English & Literature"],
   parent  |-> [id |-> "parent-1", name |-> "Mr. Raj Sharma",
                role |-> "parent", email |-> "raj.sharma@gmail.com",
                avatar |-> "/api/placeholder/40/40",
                children |-> "['student-1']"],
   student |-> [id |-> "student-1", name |-> "Aadhya Sharma",
                role |-> "student",
                email |-> "aadhya.sharma@student.edubridge.com",
                avatar |-> "/api/placeholder/40/40",
                parentId |-> "parent-1", grade |-> "5th Grade"]]

\* The property names of the User interface, in declaration order.
UserKeys ==
  <<"id", "name", "role", "email", "avatar", "classId", "subject",
    "children", "parentId", "grade">>

\* JSON.stringify of an object: the text of its own properties, one
\* key/value pair per property, in property order.
JSONstringify(obj) ==
  LET keys == SelectSeq(UserKeys, LAMBDA k : k \in DOMAIN obj)
  IN  [kind |-> "object",
       pairs |-> [i \in 1..Len(keys) |-> <<keys[i], obj[keys[i]]>>]]

\* Whether JSON.parse throws a SyntaxError on the text.
JSONparseThrows(text) == text.kind = "malformed"

\* JSON.parse of a text it accepts: the object with one property per pair,
\* or null for the text `null`.
JSONparse(text) ==
  IF text.kind = "null" THEN null
  ELSE LET ks == {text.pairs[i][1] : i \in 1..Len(text.pairs)}
       IN  [k \in ks |->
              LET i == CHOOSE j \in 1..Len(text.pairs) : text.pairs[j][1] = k
              IN  text.pairs[i][2]]

\* The content of localStorage under 'edubridge-user': no entry, or a text.
NoItem == [present |-> FALSE, text |-> [kind |-> "none", pairs |-> <<>>]]

Item(text) == [present |-> TRUE, text |-> text]

\* Texts that the entry can hold without this program having written them:
\* text that is not JSON, the JSON text `null`, and the JSON text of an
\* object whose role is not a UserRole.
MalformedText == [kind |-> "malformed", pairs |-> <<>>]

NullText == [kind |-> "null", pairs |-> <<>>]

ForeignText ==
  [kind |-> "object", pairs |-> <<<<"id", "admin-1">>, <<"role", "admin">>>>]

SavedTexts ==
  {JSONstringify(mockUsers[r]) : r \in UserRole}
    \cup {MalformedText, NullText, ForeignText}

\* ------------------------------------------------------------------------
\* Routes: App, ProtectedRoute, DashboardLayout, DashboardRouter, AppSidebar
\* ------------------------------------------------------------------------

Paths ==
  {"/login", "/dashboard", "/papers", "/feedback", "/students", "/settings",
   "/progress", "/messages", "/my-progress", "/assignments", "/"}

\* location.state of the current history entry: no state, or { from }.
NoFrom == "none"

\* What a route element renders.
Page(name, menu) ==
  [kind |-> "page", page |-> name, menu |-> menu, to |-> "", from |-> NoFrom]

LoginForm ==
  [kind |-> "form", page |-> "Login", menu |-> <<>>, to |-> "",
   from |-> NoFrom]

Spinner ==
  [kind |-> "spinner", page |-> "", menu |-> <<>>, to |-> "", from |-> NoFrom]

Blank ==
  [kind |-> "blank", page |-> "", menu |-> <<>>, to |-> "", from |-> NoFrom]

NavigateTo(to, from) ==
  [kind |-> "redirect", page |-> "", menu |-> <<>>, to |-> to, from |-> from]

\* menuItems whose parent menu still links to a /reports page.
menuItemsStale ==
  [teacher |-> <<"/dashboard", "/papers", "/feedback", "/students",
                 "/settings">>,
   parent  |-> <<"/dashboard", "/reports", "/messages", "/settings">>,
   student |-> <<"/dashboard", "/my-progress", "/assignments",
                 "/settings">>]

\* const menuItems: Record<UserRole, Array<{ title, url, icon }>> (the urls)
menuItems ==
  [teacher |-> <<"/dashboard", "/papers", "/feedback", "/students",
                 "/settings">>,
   parent  |-> <<"/dashboard", "/progress", "/messages", "/settings">>,
   student |-> <<"/dashboard", "/my-progress", "/assignments",
                 "/settings">>]

\* roleRoutes whose parent table also routes /papers to StudentPapers.
roleRoutesParentPapers ==
  [teacher |-> [p \in {"/dashboard", "/papers", "/feedback", "/students",
                       "/settings"} |->
                  CASE p = "/dashboard" -> "TeacherDashboard"
                    [] p = "/papers"    -> "StudentPapers"
                    [] p = "/feedback"  -> "AI Feedback Reports"
                    [] p = "/students"  -> "Students Management"
                    [] p = "/settings"  -> "Settings (teacher)"],
   parent  |-> [p \in {"/dashboard", "/papers", "/progress", "/messages",
                       "/settings"} |->
                  CASE p = "/dashboard" -> "ParentDashboard"
                    [] p = "/papers"    -> "StudentPapers"
                    [] p = "/progress"  -> "Detailed Progress"
                    [] p = "/messages"  -> "Messages"
                    [] p = "/settings"  -> "Settings (parent)"],
   student |-> [p \in {"/dashboard", "/my-progress", "/assignments",
                       "/settings"} |->
                  CASE p = "/dashboard"   -> "StudentDashboard"
                    [] p = "/my-progress" -> "My Progress"
                    [] p = "/assignments" -> "Assignments"
                    [] p = "/settings"    -> "Settings (student)"]]

\* The <Route> tables of DashboardRouter, one per role: path -> element.
roleRoutes ==
  [teacher |-> [p \in {"/dashboard", "/papers", "/feedback", "/students",
                       "/settings"} |->
                  CASE p = "/dashboard" -> "TeacherDashboard"
                    [] p = "/papers"    -> "StudentPapers"
                    [] p = "/feedback"  -> "AI Feedback Reports"
                    [] p = "/students"  -> "Students Management"
                    [] p = "/settings"  -> "Settings (teacher)"],
   parent  |-> [p \in {"/dashboard", "/progress", "/messages",
                       "/settings"} |->
                  CASE p = "/dashboard" -> "ParentDashboard"
                    [] p = "/progress"  -> "Detailed Progress"
                    [] p = "/messages"  -> "Messages"
                    [] p = "/settings"  -> "Settings (parent)"],
   student |-> [p \in {"/dashboard", "/my-progress", "/assignments",
                       "/settings"} |->
                  CASE p = "/dashboard"   -> "StudentDashboard"
                    [] p = "/my-progress" -> "My Progress"
                    [] p = "/assignments" -> "Assignments"
                    [] p = "/settings"    -> "Settings (student)"]]

\* isAuthenticated: !!user
isAuthenticatedOf(u) == u # null

\* AppSidebar: null without a user, otherwise the menu of the user's role.
\* menuItems[user.role] is undefined for a role outside UserRole and
\* items.map then throws while rendering.
AppSidebarThrows(u) == u # null /\ u.role \notin DOMAIN menuItems

AppSidebar(u) == IF u = null THEN <<>> ELSE menuItems[u.role]

\* DashboardRouter whose parent case falls through to the student routes.
DashboardRouterFallThrough(u, p) ==
  IF u = null THEN NavigateTo("/login", NoFrom)
  ELSE IF u.role \in DOMAIN roleRoutes
       THEN LET routes == IF u.role = "parent" THEN roleRoutes.student
                          ELSE roleRoutes[u.role]
            IN  IF p \in DOMAIN routes
                THEN Page(routes[p], <<>>)
                ELSE NavigateTo("/dashboard", NoFrom)
       ELSE NavigateTo("/login", NoFrom)

\* DashboardRouter: the element for the path under the user's role.
DashboardRouter(u, p) ==
  IF u = null THEN NavigateTo("/login", NoFrom)
  ELSE IF u.role \in DOMAIN roleRoutes
       THEN IF p \in DOMAIN roleRoutes[u.role]
            THEN Page(roleRoutes[u.role][p], <<>>)
            ELSE NavigateTo("/dashboard", NoFrom)
       ELSE NavigateTo("/login", NoFrom)

\* DashboardLayout: nothing without a user, otherwise the sidebar around
\* the children.
DashboardLayout(u, p) ==
  IF u = null THEN Blank
  ELSE IF AppSidebarThrows(u) THEN Blank
  ELSE LET child == DashboardRouter(u, p)
       IN  IF child.kind = "page" THEN Page(child.page, AppSidebar(u))
           ELSE child

\* ProtectedRoute without allowedRoles, as App uses it, around the layout.
NoRoles == {"none"}

\* ProtectedRoute without the loading branch.
ProtectedRouteNoLoading(ld, u, allowedRoles, p) ==
  IF ~isAuthenticatedOf(u) THEN NavigateTo("/login", p)
  ELSE IF allowedRoles # NoRoles /\ u # null /\ u.role \notin allowedRoles
       THEN NavigateTo("/dashboard", NoFrom)
  ELSE DashboardLayout(u, p)

\* ProtectedRoute that never looks at allowedRoles.
ProtectedRouteIgnoresRoles(ld, u, allowedRoles, p) ==
  IF ld THEN Spinner
  ELSE IF ~isAuthenticatedOf(u) THEN NavigateTo("/login", p)
  ELSE DashboardLayout(u, p)

ProtectedRoute(ld, u, allowedRoles, p) ==
  IF ld THEN Spinner
  ELSE IF ~isAuthenticatedOf(u) THEN NavigateTo("/login", p)
  ELSE IF allowedRoles # NoRoles /\ u # null /\ u.role \notin allowedRoles
       THEN NavigateTo("/dashboard", NoFrom)
  ELSE DashboardLayout(u, p)

\* Login without the isAuthenticated redirect.
LoginAlwaysForm(u) == LoginForm

\* Login: a redirect to /dashboard once authenticated, otherwise the form.
Login(u) ==
  IF isAuthenticatedOf(u) THEN NavigateTo("/dashboard", NoFrom) ELSE LoginForm

\* App: the route table.
App(ld, u, p) ==
  IF p = "/login" THEN Login(u) ELSE ProtectedRoute(ld, u, NoRoles, p)

\* ------------------------------------------------------------------------
\* State
\* ------------------------------------------------------------------------

VARIABLES
  user,          \* AuthProvider: useState<User | null>(null)
  loading,       \* AuthProvider: useState(true)
  storage,       \* localStorage entry 'edubridge-user'
  mounted,       \* whether the AuthProvider's mount effect has run
  crashed,       \* whether an uncaught error has unmounted the React tree
  path,          \* location.pathname
  navFrom,       \* location.state.from
  email,         \* Login: useState('')
  password,      \* Login: useState('')
  selectedRole,  \* Login: useState<UserRole>('teacher')
  isLoggingIn,   \* Login: useState(false)
  loginPc,       \* position of the login() call: "idle" or "waiting"
  loginArgs,     \* the arguments of the login() call in flight
  toast,         \* title of the last toast shown
  \* AIFeedback
  data,           \* the cached query data of ['ai-feedback']
  isFetching,     \* whether fetchFeedback is in flight
  search,         \* useState('')
  subjectFilter,  \* useState<string>('all')
  statusFilter,   \* useState<'all' | 'draft' | 'final'>('all')
  selectedId,     \* useState<string | null>(null)
  regenPending,   \* the id given to the mutation in flight, or "none"
  \* StudentPapers
  searchTerm,         \* useState('')
  papersStatusFilter  \* useState('all') (statusFilter)

authVarsNoToast ==
  <<user, loading, storage, mounted, crashed, path, navFrom, email, password,
    selectedRole, isLoggingIn, loginPc, loginArgs>>

authVars == <<authVarsNoToast, toast>>

feedbackVars ==
  <<data, isFetching, search, subjectFilter, statusFilter, selectedId,
    regenPending>>

papersVars == <<searchTerm, papersStatusFilter>>

\* The state of the two pages, which no operation of the session touches.
pageVars == <<feedbackVars, papersVars>>

vars == <<authVars, feedbackVars, papersVars>>

\* Inputs of the Login form.
Emails == {"", "teacher@demo.com", "someone@else.org"}

Passwords == {"", "demo123"}

\* const demoCredentials
demoCredentials ==
  [teacher |-> [email |-> "teacher@demo.com", password |-> "demo123"],
   parent  |-> [email |-> "parent@demo.com", password |-> "demo123"],
   student |-> [email |-> "student@demo.com", password |-> "demo123"]]

NoArgs == [email |-> "", password |-> "", role |-> "teacher"]

\* What the browser shows at the current location.
Screen == IF crashed THEN Blank ELSE App(loading, user, path)

\* The Login component's state is lost when the route leaves /login.
LoginStateAt(p) ==
  IF p = "/login"
  THEN UNCHANGED <<email, password, selectedRole, isLoggingIn>>
  ELSE /\ email' = ""
       /\ password' = ""
       /\ selectedRole' = "teacher"
       /\ isLoggingIn' = FALSE

\* A page load: the provider is constructed, its effect has not run yet.
AuthInit ==
  /\ user = null
  /\ loading = TRUE
  /\ storage \in {NoItem} \cup {Item(t) : t \in SavedTexts}
  /\ mounted = FALSE
  /\ crashed = FALSE
  /\ path \in Paths
  /\ navFrom = NoFrom
  /\ email = ""
  /\ password = ""
  /\ selectedRole = "teacher"
  /\ isLoggingIn = FALSE
  /\ loginPc = "idle"
  /\ loginArgs = NoArgs
  /\ toast = "none"

\* The mount effect with the test of savedUser inverted: nothing is restored.
MountNoRestore ==
  /\ ~mounted
  /\ ~crashed
  /\ user' = user
  /\ loading' = FALSE
  /\ crashed' = FALSE
  /\ mounted' = TRUE
  /\ UNCHANGED <<storage, path, navFrom, email, password, selectedRole,
                 isLoggingIn, loginPc, loginArgs, toast>>
  /\ UNCHANGED pageVars

\* AuthProvider useEffect: restore the saved user, then clear loading.
\* A SyntaxError of JSON.parse leaves the effect before setLoading(false)
\* and, being uncaught, unmounts the tree.
Mount ==
  /\ ~mounted
  /\ ~crashed
  /\ IF storage.present /\ JSONparseThrows(storage.text)
     THEN /\ crashed' = TRUE
          /\ UNCHANGED <<user, loading>>
     ELSE /\ user' = IF storage.present THEN JSONparse(storage.text) ELSE user
          /\ loading' = FALSE
          /\ crashed' = FALSE
  /\ mounted' = TRUE
  /\ UNCHANGED <<storage, path, navFrom, email, password, selectedRole,
                 isLoggingIn, loginPc, loginArgs, toast>>
  /\ UNCHANGED pageVars

\* Login form inputs.
SetEmail(e) ==
  /\ mounted
  /\ Screen.kind = "form"
  /\ email' = e
  /\ UNCHANGED <<user, loading, storage, mounted, crashed, path, navFrom,
                 password, selectedRole, isLoggingIn, loginPc, loginArgs,
                 toast>>
  /\ UNCHANGED pageVars

SetPassword(pw) ==
  /\ mounted
  /\ Screen.kind = "form"
  /\ password' = pw
  /\ UNCHANGED <<user, loading, storage, mounted, crashed, path, navFrom,
                 email, selectedRole, isLoggingIn, loginPc, loginArgs, toast>>
  /\ UNCHANGED pageVars

SetSelectedRole(r) ==
  /\ mounted
  /\ Screen.kind = "form"
  /\ selectedRole' = r
  /\ UNCHANGED <<user, loading, storage, mounted, crashed, path, navFrom,
                 email, password, isLoggingIn, loginPc, loginArgs, toast>>
  /\ UNCHANGED pageVars

\* The 'Use Demo Credentials' button of the selected role's tab.
useDemoCredentials ==
  /\ mounted
  /\ Screen.kind = "form"
  /\ email' = demoCredentials[selectedRole].email
  /\ password' = demoCredentials[selectedRole].password
  /\ UNCHANGED <<user, loading, storage, mounted, crashed, path, navFrom,
                 selectedRole, isLoggingIn, loginPc, loginArgs, toast>>
  /\ UNCHANGED pageVars

\* handleLogin whose validation rejects only a form with both fields empty.
handleLoginBothEmpty ==
  /\ mounted
  /\ Screen.kind = "form"
  /\ ~(isLoggingIn \/ loading)
  /\ IF email = "" /\ password = ""
     THEN /\ toast' = "Missing Information"
          /\ UNCHANGED <<isLoggingIn, loading, loginPc, loginArgs>>
     ELSE /\ isLoggingIn' = TRUE
          /\ loading' = TRUE
          /\ loginPc' = "waiting"
          /\ loginArgs' = [email |-> email, password |-> password,
                           role |-> selectedRole]
          /\ UNCHANGED toast
  /\ UNCHANGED <<user, storage, mounted, crashed, path, navFrom, email,
                 password, selectedRole>>
  /\ UNCHANGED pageVars

\* handleLogin up to the await inside login(): validation, then
\* setIsLoggingIn(true), setLoading(true) and the timer is started.
\* The submit button is disabled while isLoggingIn || loading.
handleLogin ==
  /\ mounted
  /\ Screen.kind = "form"
  /\ ~(isLoggingIn \/ loading)
  /\ IF email = "" \/ password = ""
     THEN /\ toast' = "Missing Information"
          /\ UNCHANGED <<isLoggingIn, loading, loginPc, loginArgs>>
     ELSE /\ isLoggingIn' = TRUE
          /\ loading' = TRUE
          /\ loginPc' = "waiting"
          /\ loginArgs' = [email |-> email, password |-> password,
                           role |-> selectedRole]
          /\ UNCHANGED toast
  /\ UNCHANGED <<user, storage, mounted, crashed, path, navFrom, email,
                 password, selectedRole>>
  /\ UNCHANGED pageVars

\* loginUser with a lookup by the email before the lookup by the role.
loginUserByEmail(em, pw, role) ==
  IF \E r \in UserRole : demoCredentials[r].email = em
  THEN mockUsers[CHOOSE r \in UserRole : demoCredentials[r].email = em]
  ELSE mockUsers[role]

\* The user that login() authenticates: mockUsers[role].
loginUser(em, pw, role) == mockUsers[role]

\* login() after the timer, and the rest of handleLogin: setUser, then
\* localStorage.setItem, then setLoading(false), the welcome toast and
\* setIsLoggingIn(false). setItem throws when the storage quota is
\* exceeded: login() then rejects after setUser, handleLogin shows
\* 'Login Failed', and setLoading(false) is not reached.
loginResolve(setItemThrows) ==
  /\ loginPc = "waiting"
  /\ user' = loginUser(loginArgs.email, loginArgs.password, loginArgs.role)
  /\ IF setItemThrows
     THEN /\ toast' = "Login Failed"
          /\ UNCHANGED <<storage, loading>>
     ELSE /\ storage' = Item(JSONstringify(user'))
          /\ loading' = FALSE
          /\ toast' = "Welcome to EduBridge!"
  /\ isLoggingIn' = FALSE
  /\ loginPc' = "idle"
  /\ UNCHANGED <<mounted, crashed, path, navFrom, email, password,
                 selectedRole, loginArgs>>
  /\ UNCHANGED pageVars

\* logout() without localStorage.removeItem.
logoutKeepsItem ==
  /\ mounted
  /\ Screen.kind = "page"
  /\ user' = null
  /\ UNCHANGED <<storage, loading, mounted, crashed, path, navFrom, email,
                 password, selectedRole, isLoggingIn, loginPc, loginArgs,
                 toast>>
  /\ UNCHANGED pageVars

\* logout(), from the Sign Out button of the sidebar.
logout ==
  /\ mounted
  /\ Screen.kind = "page"
  /\ user' = null
  /\ storage' = NoItem
  /\ UNCHANGED <<loading, mounted, crashed, path, navFrom, email, password,
                 selectedRole, isLoggingIn, loginPc, loginArgs, toast>>
  /\ UNCHANGED pageVars

\* A <Navigate replace> rendered at the current location takes effect.
Redirect ==
  /\ Screen.kind = "redirect"
  /\ path' = Screen.to
  /\ navFrom' = Screen.from
  /\ LoginStateAt(path')
  /\ UNCHANGED <<user, loading, storage, mounted, crashed, loginPc, loginArgs,
                 toast>>
  /\ UNCHANGED pageVars

\* The user follows a link or moves in the history without a page load.
Navigate(p) ==
  /\ mounted
  /\ Screen.kind # "blank"
  /\ p # path
  /\ path' = p
  /\ navFrom' = NoFrom
  /\ LoginStateAt(p)
  /\ UNCHANGED <<user, loading, storage, mounted, crashed, loginPc, loginArgs,
                 toast>>
  /\ UNCHANGED pageVars

\* A page load at p: all React state and pending timers are gone, the
\* localStorage entry stays, and so does the state of the history entry
\* when the page is reloaded in place.
Reload(p) ==
  /\ mounted
  /\ user' = null
  /\ loading' = TRUE
  /\ mounted' = FALSE
  /\ crashed' = FALSE
  /\ path' = p
  /\ navFrom' = IF p = path THEN navFrom ELSE NoFrom
  /\ email' = ""
  /\ password' = ""
  /\ selectedRole' = "teacher"
  /\ isLoggingIn' = FALSE
  /\ loginPc' = "idle"
  /\ loginArgs' = NoArgs
  /\ toast' = "none"
  /\ UNCHANGED storage
  /\ UNCHANGED pageVars

AuthNext ==
  \/ Mount
  \/ \E e \in Emails : SetEmail(e)
  \/ \E pw \in Passwords : SetPassword(pw)
  \/ \E r \in UserRole : SetSelectedRole(r)
  \/ useDemoCredentials
  \/ handleLogin
  \/ \E t \in BOOLEAN : loginResolve(t)
  \/ logout
  \/ Redirect
  \/ \E p \in Paths : Navigate(p)
  \/ \E p \in Paths : Reload(p)

\* ------------------------------------------------------------------------
\* Strings that are searched: sequences of one-character strings
\* ------------------------------------------------------------------------

UpperLetters ==
  <<"A", "B", "C", "D", "E", "F", "G", "H", "I", "J", "K", "L", "M",
    "N", "O", "P", "Q", "R", "S", "T", "U", "V", "W", "X", "Y", "Z">>

LowerLetters ==
  <<"a", "b", "c", "d", "e", "f", "g", "h", "i", "j", "k", "l", "m",
    "n", "o", "p", "q", "r", "s", "t", "u", "v", "w", "x", "y", "z">>

\* The lower-case letter of every upper-case letter.
lowerOf ==
  [c \in {UpperLetters[j] : j \in 1..Len(UpperLetters)} |->
     LowerLetters[CHOOSE j \in 1..Len(UpperLetters) : UpperLetters[j] = c]]

\* String.prototype.toLowerCase
toLowerCase(s) ==
  [i \in 1..Len(s) |-> IF s[i] \in DOMAIN lowerOf THEN lowerOf[s[i]] ELSE s[i]]

\* String.prototype.includes
includes(s, t) ==
  \E i \in 0..(Len(s) - Len(t)) : SubSeq(s, i + 1, i + Len(t)) = t

\* The searched strings of the mock data.
AadhyaSharma ==
  <<"A", "a", "d", "h", "y", "a", " ", "S", "h", "a", "r", "m", "a">>

ArjunPatel ==
  <<"A", "r", "j", "u", "n", " ", "P", "a", "t", "e", "l">>

DiyaSingh ==
  <<"D", "i", "y", "a", " ", "S", "i", "n", "g", "h">>

English ==
  <<"E", "n", "g", "l", "i", "s", "h">>

Math ==
  <<"M", "a", "t", "h">>

Science ==
  <<"S", "c", "i", "e", "n", "c", "e">>

TitleSummer ==
  <<"C", "r", "e", "a", "t", "i", "v", "e", " ", "W", "r", "i", "t",
    "i", "n", "g", ":", " ", "M", "y", " ", "S", "u", "m", "m", "e", "r">>

TitleFractions ==
  <<"P", "r", "o", "b", "l", "e", "m", " ", "S", "e", "t", ":", " ",
    "F", "r", "a", "c", "t", "i", "o", "n", "s", " ", "&", " ", "R",
    "a", "t", "i", "o", "s">>

TitlePlant ==
  <<"R", "e", "p", "o", "r", "t", ":", " ", "P", "l", "a", "n", "t",
    " ", "L", "i", "f", "e", " ", "C", "y", "c", "l", "e">>

EnglishEssay ==
  <<"E", "n", "g", "l", "i", "s", "h", " ", "E", "s", "s", "a", "y">>

MathProblemSet ==
  <<"M", "a", "t", "h", " ", "P", "r", "o", "b", "l", "e", "m", " ",
    "S", "e", "t">>

ScienceReport ==
  <<"S", "c", "i", "e", "n", "c", "e", " ", "R", "e", "p", "o", "r", "t">>

\* ------------------------------------------------------------------------
\* AI Feedback page: AIFeedback.tsx
\* ------------------------------------------------------------------------

\* The values of the filter selects.
AllText == <<"a", "l", "l">>

SubjectFilters == {AllText, toLowerCase(English), toLowerCase(Math),
                   toLowerCase(Science)}

StatusFilters == {"all", "draft", "final"}

\* The search texts tried on the AI Feedback page: the empty text and some
\* words. On the Student Papers page: these, and every text of at most
\* MaxSearchLen characters over SearchAlphabet.
MaxSearchLen == 2

SearchAlphabet == {"a", "S", "t", " "}

SearchWords ==
  {<<>>,
   <<"m", "a", "t", "h">>,
   <<"S", "H", "A", "R", "M", "A">>,
   <<"R", "e", "p", "o", "r", "t">>,
   <<"e", "n", "g">>,
   <<"n", " ", "P">>,
   <<"z", "z">>}

SearchTexts ==
  SearchWords \cup
    UNION {[1..n -> SearchAlphabet] : n \in 0..MaxSearchLen}

\* Math.floor(75 + Math.random() * 20) is any of 75..94; the scores tried
\* are the first MaxRegenOffset + 1 of them.
RegenBase == 75

RegenSpan == 20

MaxRegenOffset == 0

RegenScores ==
  {RegenBase + k : k \in {j \in 0..MaxRegenOffset : j < RegenSpan}}

\* A FeedbackItem, without the fields that no operation reads.
FeedbackItem(id, studentName, subject, submissionTitle, aiScore, status) ==
  [id |-> id, studentName |-> studentName, subject |-> subject,
   submissionTitle |-> submissionTitle, aiScore |-> aiScore,
   status |-> status]

\* fetchFeedback(): the array it resolves to.
fetchFeedback ==
  <<FeedbackItem("fb-1", AadhyaSharma, English, TitleSummer, 92, "final"),
    FeedbackItem("fb-2", ArjunPatel, Math, TitleFractions, 78, "draft"),
    FeedbackItem("fb-3", DiyaSingh, Science, TitlePlant, 85, "final")>>

\* The query data: undefined until the first fetch resolves.
undefined == [defined |-> FALSE, items |-> <<>>]

Data(items) == [defined |-> TRUE, items |-> items]

\* onSuccess of the regenerate mutation: the updater given to setQueryData.
regenUpdate(old, result) ==
  IF ~old.defined THEN old
  ELSE Data([i \in 1..Len(old.items) |->
               IF old.items[i].id = result.id
               THEN [old.items[i] EXCEPT !.aiScore = result.newScore,
                                         !.status = "draft"]
               ELSE old.items[i]])

\* matchesSearch without toLowerCase on the search text.
matchesSearchCaseSensitive(item, srch) ==
  \E v \in {item.studentName, item.submissionTitle, item.subject} :
    includes(toLowerCase(v), srch)

\* matchesSearch, matchesSubject and matchesStatus of the filter callback.
matchesSearch(item, srch) ==
  \E v \in {item.studentName, item.submissionTitle, item.subject} :
    includes(toLowerCase(v), toLowerCase(srch))

matchesSubject(item, subjFilter) ==
  subjFilter = AllText \/ toLowerCase(item.subject) = subjFilter

matchesStatus(item, statFilter) ==
  statFilter = "all" \/ item.status = statFilter

\* const filtered = useMemo(...)
filteredOf(d, srch, subjFilter, statFilter) ==
  IF ~d.defined THEN <<>>
  ELSE SelectSeq(d.items,
                 LAMBDA item : /\ matchesSearch(item, srch)
                               /\ matchesSubject(item, subjFilter)
                               /\ matchesStatus(item, statFilter))

\* const selected = filtered.find(f => f.id === selectedId) || filtered[0]
\* || null, as the id of the item ("none" for null).
selectedOf(list, selId) ==
  IF \E i \in 1..Len(list) : list[i].id = selId THEN selId
  ELSE IF Len(list) > 0 THEN list[1].id
  ELSE "none"

filtered == filteredOf(data, search, subjectFilter, statusFilter)

selected == selectedOf(filtered, selectedId)

\* isLoading: the first fetch; isRefetching: a later one.
isLoading == isFetching /\ ~data.defined

isRefetching == isFetching /\ data.defined

\* The page is mounted and useQuery has started the first fetch.
FeedbackInit ==
  /\ data = undefined
  /\ isFetching = TRUE
  /\ search = <<>>
  /\ subjectFilter = AllText
  /\ statusFilter = "all"
  /\ selectedId = "none"
  /\ regenPending = "none"

\* A fetch that keeps the cached list when there is one.
fetchResolveKeepsCache ==
  /\ isFetching
  /\ data' = IF data.defined THEN data ELSE Data(fetchFeedback)
  /\ isFetching' = FALSE
  /\ UNCHANGED <<search, subjectFilter, statusFilter, selectedId,
                 regenPending, toast>>
  /\ UNCHANGED <<authVarsNoToast, papersVars>>

\* fetchFeedback resolves: the query data becomes what it returned.
fetchResolve ==
  /\ isFetching
  /\ data' = Data(fetchFeedback)
  /\ isFetching' = FALSE
  /\ UNCHANGED <<search, subjectFilter, statusFilter, selectedId,
                 regenPending, toast>>
  /\ UNCHANGED <<authVarsNoToast, papersVars>>

\* The Refresh button: refetch(), disabled while isRefetching || isLoading.
refetch ==
  /\ ~(isRefetching \/ isLoading)
  /\ isFetching' = TRUE
  /\ UNCHANGED <<data, search, subjectFilter, statusFilter, selectedId,
                 regenPending, toast>>
  /\ UNCHANGED <<authVarsNoToast, papersVars>>

setSearch(t) ==
  /\ search' = t
  /\ UNCHANGED <<data, isFetching, subjectFilter, statusFilter, selectedId,
                 regenPending, toast>>
  /\ UNCHANGED <<authVarsNoToast, papersVars>>

setSubjectFilter(v) ==
  /\ subjectFilter' = v
  /\ UNCHANGED <<data, isFetching, search, statusFilter, selectedId,
                 regenPending, toast>>
  /\ UNCHANGED <<authVarsNoToast, papersVars>>

setStatusFilter(v) ==
  /\ statusFilter' = v
  /\ UNCHANGED <<data, isFetching, search, subjectFilter, selectedId,
                 regenPending, toast>>
  /\ UNCHANGED <<authVarsNoToast, papersVars>>

\* A click on an entry of the shown list.
setSelectedId(id) ==
  /\ ~isLoading
  /\ \E i \in 1..Len(filtered) : filtered[i].id = id
  /\ selectedId' = id
  /\ UNCHANGED <<data, isFetching, search, subjectFilter, statusFilter,
                 regenPending, toast>>
  /\ UNCHANGED <<authVarsNoToast, papersVars>>

\* The Regenerate button of the detail panel: regenMutation.mutate(id),
\* disabled while the mutation is pending.
handleRegenerate ==
  /\ selected # "none"
  /\ regenPending = "none"
  /\ regenPending' = selected
  /\ UNCHANGED <<data, isFetching, search, subjectFilter, statusFilter,
                 selectedId, toast>>
  /\ UNCHANGED <<authVarsNoToast, papersVars>>

\* regenerateFeedback resolves and onSuccess updates the cached list.
regenResolve(newScore) ==
  /\ regenPending # "none"
  /\ data' = regenUpdate(data, [id |-> regenPending, newScore |-> newScore])
  /\ regenPending' = "none"
  /\ toast' = "Feedback regenerated"
  /\ UNCHANGED <<isFetching, search, subjectFilter, statusFilter, selectedId>>
  /\ UNCHANGED <<authVarsNoToast, papersVars>>

FeedbackNext ==
  \/ fetchResolve
  \/ refetch
  \/ \E t \in SearchWords : setSearch(t)
  \/ \E v \in SubjectFilters : setSubjectFilter(v)
  \/ \E v \in StatusFilters : setStatusFilter(v)
  \/ \E id \in {"fb-1", "fb-2", "fb-3"} : setSelectedId(id)
  \/ handleRegenerate
  \/ \E n \in RegenScores : regenResolve(n)

\* ------------------------------------------------------------------------
\* Student Papers page
\* ------------------------------------------------------------------------

\* const mockPapers (the fields the filter reads)
mockPapers ==
  <<[id |-> 1, studentName |-> AadhyaSharma, subject |-> EnglishEssay,
     status |-> "reviewed"],
    [id |-> 2, studentName |-> ArjunPatel, subject |-> MathProblemSet,
     status |-> "pending"],
    [id |-> 3, studentName |-> DiyaSingh, subject |-> ScienceReport,
     status |-> "in-progress"]>>

PaperStatusFilters == {"all", "pending", "in-progress", "reviewed"}

\* filteredPapers that searches the student name only.
filteredPapersByNameOnly(term, statFilter) ==
  SelectSeq(mockPapers,
            LAMBDA paper :
              /\ includes(toLowerCase(paper.studentName), toLowerCase(term))
              /\ (statFilter = "all" \/ paper.status = statFilter))

\* const filteredPapers = mockPapers.filter(...)
filteredPapersOf(term, statFilter) ==
  SelectSeq(mockPapers,
            LAMBDA paper :
              /\ \/ includes(toLowerCase(paper.studentName),
                             toLowerCase(term))
                 \/ includes(toLowerCase(paper.subject), toLowerCase(term))
              /\ (statFilter = "all" \/ paper.status = statFilter))

\* {filteredPapers.length === 0 && (... No papers found ...)}
noPapersFoundOf(list) == Len(list) = 0

filteredPapers == filteredPapersOf(searchTerm, papersStatusFilter)

noPapersFound == noPapersFoundOf(filteredPapers)

PapersInit ==
  /\ searchTerm = <<>>
  /\ papersStatusFilter = "all"

setSearchTerm(t) ==
  /\ searchTerm' = t
  /\ UNCHANGED papersStatusFilter
  /\ UNCHANGED <<authVars, feedbackVars>>

setPapersStatusFilter(v) ==
  /\ papersStatusFilter' = v
  /\ UNCHANGED searchTerm
  /\ UNCHANGED <<authVars, feedbackVars>>

PapersNext ==
  \/ \E t \in SearchTexts : setSearchTerm(t)
  \/ \E v \in PaperStatusFilters : setPapersStatusFilter(v)

\* ------------------------------------------------------------------------
\* Specifications
\* ------------------------------------------------------------------------

\* The application from a page load, with the pages at rest.
Init == AuthInit /\ FeedbackInit /\ PapersInit

Next == AuthNext

Spec == Init /\ [][Next]_vars

\* The application from a page load with nothing saved: every saved entry
\* is one that a login of this run has written.
InitFresh == Init /\ storage = NoItem

SpecFresh == InitFresh /\ [][Next]_vars

\* A teacher's session restored and the AI Feedback page in use.
TeacherSession ==
  /\ user = mockUsers.teacher
  /\ loading = FALSE
  /\ storage = Item(JSONstringify(mockUsers.teacher))
  /\ mounted = TRUE
  /\ crashed = FALSE
  /\ path = "/feedback"
  /\ navFrom = NoFrom
  /\ email = ""
  /\ password = ""
  /\ selectedRole = "teacher"
  /\ isLoggingIn = FALSE
  /\ loginPc = "idle"
  /\ loginArgs = NoArgs
  /\ toast = "none"

InitFeedback == TeacherSession /\ FeedbackInit /\ PapersInit

NextFeedback == FeedbackNext

SpecFeedback == InitFeedback /\ [][NextFeedback]_vars

\* The Student Papers page in use.
InitPapers ==
  /\ TeacherSession
  /\ FeedbackInit
  /\ PapersInit

NextPapers == PapersNext

SpecPapers == InitPapers /\ [][NextPapers]_vars

\* ------------------------------------------------------------------------
\* Properties of the session (Spec)
\* ------------------------------------------------------------------------

\* A step in which the login() call in flight runs to its end.
LoginCompletes == loginPc = "waiting" /\ loginPc' = "idle" /\ mounted'

\* A step of the AuthProvider's mount effect.
MountRuns == ~mounted /\ mounted'

\* A step of logout().
LogoutRuns == mounted /\ mounted' /\ user # null /\ user' = null

\* C1: when a login completes, the user is the mock user of the role that
\* was passed to login, whatever email and password were passed, and
\* isAuthenticated is true.
C1_LoginIsTableLookup ==
  [][LoginCompletes =>
       /\ \A r \in UserRole : loginArgs.role = r => user' = mockUsers[r]
       /\ user'.role = loginArgs.role
       /\ isAuthenticatedOf(user')]_vars

\* C1 witness: a login with an email that belongs to no mock user has
\* completed for the student role.
C1_Witness ==
  /\ user = mockUsers.student
  /\ email = "someone@else.org"
  /\ password # ""
  /\ toast = "Welcome to EduBridge!"
  /\ ~loading

\* Whether ProtectedRoute's output at p is its children, that is neither
\* its spinner nor its redirect to /login.
ChildrenRendered(out, p) == out # Spinner /\ out # NavigateTo("/login", p)

\* C2: ProtectedRoute renders its children only when loading is false and a
\* user is authenticated; while loading it renders the spinner; when not
\* loading and unauthenticated it redirects to /login.
C2_ProtectedRouteGuards ==
  \A p \in Paths \ {"/login"} :
    LET out == ProtectedRoute(loading, user, NoRoles, p)
    IN  /\ ChildrenRendered(out, p) => ~loading /\ isAuthenticatedOf(user)
        /\ loading => out = Spinner
        /\ (~loading /\ ~isAuthenticatedOf(user)) =>
             out.kind = "redirect" /\ out.to = "/login"

\* C2 witness: a protected page is shown to an authenticated user.
C2_Witness ==
  /\ ~loading
  /\ user # null
  /\ path = "/papers"
  /\ Screen.kind = "page"
  /\ ChildrenRendered(Screen, path)

\* The dashboard page of each role.
DashboardOf ==
  [teacher |-> "TeacherDashboard", parent |-> "ParentDashboard",
   student |-> "StudentDashboard"]

\* C3: the role of the authenticated user alone selects what renders: at
\* /dashboard the dashboard page of that role inside a sidebar that shows
\* exactly the menu of that role.
C3_RoleSelectsView ==
  (user # null /\ user.role \in UserRole) =>
    LET view == DashboardLayout(user, "/dashboard")
    IN  /\ view.kind = "page"
        /\ view.page = DashboardOf[user.role]
        /\ view.menu = menuItems[user.role]
        /\ \A r \in UserRole \ {user.role} :
             view.page # DashboardOf[r] /\ view.menu # menuItems[r]
        /\ (path = "/dashboard" /\ Screen.kind = "page") => Screen = view

\* C3 witness: a parent who logged in during this page load is shown the
\* parent dashboard.
C3_Witness ==
  /\ user # null
  /\ user.role = "parent"
  /\ toast = "Welcome to EduBridge!"
  /\ path = "/dashboard"
  /\ Screen.page = "ParentDashboard"

\* C4: whenever a user is authenticated, user.role is a UserRole.
C4_RoleIsUserRole == user # null => user.role \in UserRole

\* C5: when the mount effect runs and the saved entry is what a completed
\* login wrote, the user becomes that saved user and is authenticated
\* without a login call; when there is no saved entry the user stays null.
C5_SessionRestore ==
  [][MountRuns =>
       /\ \A r \in UserRole :
            storage = Item(JSONstringify(mockUsers[r])) =>
              /\ user' = mockUsers[r]
              /\ isAuthenticatedOf(user')
              /\ ~loading'
              /\ loginPc = "idle" /\ loginPc' = "idle"
       /\ ~storage.present => user' = null]_vars

\* C5 witness: a parent's session has been restored by the mount effect.
C5_Witness ==
  /\ mounted
  /\ user = mockUsers.parent
  /\ toast = "none"
  /\ loginPc = "idle"
  /\ storage = Item(JSONstringify(mockUsers.parent))

\* C6: logout leaves the user null and the saved entry removed, so that
\* every protected path redirects to /login; and as long as no login
\* completes, the entry stays removed and the user stays null, also across
\* a re-mount.
C6_LogoutClearsSession ==
  [][/\ LogoutRuns =>
          /\ ~isAuthenticatedOf(user')
          /\ storage' = NoItem
          /\ \A p \in Paths \ {"/login"} :
               App(loading', user', p) = NavigateTo("/login", p)
     /\ (user = null /\ ~storage.present /\ ~LoginCompletes) =>
          (user' = null /\ ~storage'.present)]_vars

\* C6 witness: after a login in this page load, logout has run at /papers.
C6_Witness ==
  /\ mounted
  /\ user = null
  /\ ~storage.present
  /\ toast = "Welcome to EduBridge!"
  /\ path = "/papers"
  /\ Screen = NavigateTo("/login", "/papers")

\* C7: a started login never fails and leaves loading false: the step that
\* completes it does not show 'Login Failed' and clears loading.
C7_LoginNeverFails ==
  [][LoginCompletes => toast' # "Login Failed" /\ ~loading']_vars

\* ------------------------------------------------------------------------
\* Properties of the AI Feedback page (SpecFeedback)
\* ------------------------------------------------------------------------

\* The position of an item of the shown list in the fetched list.
PositionIn(items, item) == CHOOSE i \in 1..Len(items) : items[i] = item

\* Whether list holds, in the order of items and once each, exactly the
\* items for which Keep holds.
IsSelectionOf(list, items, Keep(_)) ==
  /\ \A i \in 1..Len(items) :
       Keep(items[i]) <=> \E j \in 1..Len(list) : list[j] = items[i]
  /\ \A j \in 1..Len(list) : \E i \in 1..Len(items) : items[i] = list[j]
  /\ \A j, k \in 1..Len(list) :
       j < k => PositionIn(items, list[j]) < PositionIn(items, list[k])

\* The criterion of the AI Feedback list for one item.
FeedbackCriterion(item) ==
  /\ \/ includes(toLowerCase(item.studentName), toLowerCase(search))
     \/ includes(toLowerCase(item.submissionTitle), toLowerCase(search))
     \/ includes(toLowerCase(item.subject), toLowerCase(search))
  /\ subjectFilter = AllText \/ subjectFilter = toLowerCase(item.subject)
  /\ statusFilter = "all" \/ statusFilter = item.status

\* C8: the shown list is exactly the fetched items, in fetched order, that
\* match the lower-cased search text in name, title or subject, the subject
\* filter and the status filter; with an empty search and both filters
\* 'all' every item is shown.
C8_FilteredIsExactMatch ==
  /\ data.defined => IsSelectionOf(filtered, data.items, FeedbackCriterion)
  /\ ~data.defined => filtered = <<>>
  /\ (data.defined /\ search = <<>> /\ subjectFilter = AllText
        /\ statusFilter = "all") => filtered = data.items

\* C8 witness: an upper-case search text and a status filter select the one
\* item whose student name contains the text in lower case.
C8_Witness ==
  /\ data.defined
  /\ search = <<"S", "H", "A", "R", "M", "A">>
  /\ statusFilter = "final"
  /\ Len(filtered) = 1
  /\ filtered[1].id = "fb-1"

\* C10: every fetch or refetch that completes sets the list to the canned
\* three items, whatever regenerations were applied before.
C10_FetchRestoresCanned ==
  [][(isFetching /\ ~isFetching') =>
       /\ data'.defined
       /\ Len(data'.items) = 3
       /\ [i \in 1..3 |-> data'.items[i].id] = <<"fb-1", "fb-2", "fb-3">>
       /\ [i \in 1..3 |-> data'.items[i].aiScore] = <<92, 78, 85>>
       /\ [i \in 1..3 |-> data'.items[i].status] =
            <<"final", "draft", "final">>]_vars

\* C10 witness: a regeneration has been applied and a later refetch has put
\* the canned list back.
C10_Witness ==
  /\ toast = "Feedback regenerated"
  /\ regenPending = "none"
  /\ ~isFetching
  /\ data = Data(fetchFeedback)

\* ------------------------------------------------------------------------
\* Properties of the Student Papers page (SpecPapers)
\* ------------------------------------------------------------------------

\* The criterion of the Student Papers list for one paper.
PapersCriterion(paper) ==
  /\ \/ includes(toLowerCase(paper.studentName), toLowerCase(searchTerm))
     \/ includes(toLowerCase(paper.subject), toLowerCase(searchTerm))
  /\ papersStatusFilter = "all" \/ papersStatusFilter = paper.status

\* C9: the shown papers are exactly the mock papers, in order, that match
\* the lower-cased term in student name or subject and the status filter;
\* 'No papers found' is shown if and only if no paper does.
C9_FilteredPapersIsExactMatch ==
  /\ IsSelectionOf(filteredPapers, mockPapers, PapersCriterion)
  /\ noPapersFound <=>
       ~\E i \in 1..Len(mockPapers) : PapersCriterion(mockPapers[i])

\* C9 witness: a term found only in a subject, together with the status of
\* that paper, shows that one paper and not the 'No papers found' block.
C9_Witness ==
  /\ searchTerm = <<"R", "e", "p", "o", "r", "t">>
  /\ papersStatusFilter = "in-progress"
  /\ Len(filteredPapers) = 1
  /\ filteredPapers[1].id = 3
  /\ ~noPapersFound

\* ------------------------------------------------------------------------
\* Further properties of the session (Spec, SpecFresh)
\* ------------------------------------------------------------------------

\* A step that starts a login() call.
LoginStarts == loginPc = "idle" /\ loginPc' = "waiting"

\* A page load.
ReloadRuns == mounted /\ ~mounted'

\* C11: a submit with an empty email or an empty password only raises the
\* 'Missing Information' toast: that toast appears only for such a form and
\* with user, loading, isLoggingIn and the saved entry unchanged, and no
\* login is ever started from such a form.
C11_MissingInformationOnly ==
  [][/\ (toast # "Missing Information" /\ toast' = "Missing Information") =>
          /\ email = "" \/ password = ""
          /\ loginPc' = loginPc
          /\ UNCHANGED <<user, loading, isLoggingIn, storage>>
     /\ LoginStarts => (email # "" /\ password # "")]_vars

\* C11 witness: a form with an email and no password was submitted.
C11_Witness ==
  /\ toast = "Missing Information"
  /\ email # ""
  /\ password = ""
  /\ loginPc = "idle"
  /\ ~loading
  /\ ~isLoggingIn
  /\ user = null

\* C12: nothing survives a page load: when the mount effect has run, the
\* user is null.
C12_NoPersistence == [][MountRuns => user' = null]_vars

\* C12 amended: a page load resets all state of the provider and of the
\* Login page but keeps the saved entry, and the mount effect then
\* restores the user that the last completed login saved; the user is null
\* after it exactly when no entry is saved.
C12_OnlySessionPersists ==
  [][/\ ReloadRuns =>
          /\ user' = null /\ loading' /\ loginPc' = "idle"
          /\ ~isLoggingIn' /\ email' = "" /\ password' = ""
          /\ toast' = "none"
          /\ storage' = storage
     /\ MountRuns =>
          /\ user' = null <=> ~storage.present
          /\ storage.present =>
               \E r \in UserRole :
                 /\ storage = Item(JSONstringify(mockUsers[r]))
                 /\ user' = mockUsers[r]]_vars

\* C12 witness: a student logged in, the page was loaded again and the
\* mount effect restored the student.
C12_Witness ==
  /\ mounted
  /\ toast = "none"
  /\ loginPc = "idle"
  /\ user = mockUsers.student
  /\ storage.present

\* C13: a login attempt that ends in 'Login Failed' leaves the user
\* unauthenticated and both loading and isLoggingIn false.
C13_FailedLoginResets ==
  [][(LoginCompletes /\ toast' = "Login Failed") =>
       (user' = null /\ ~loading' /\ ~isLoggingIn')]_vars

\* The paths and the pages of each role, as the routes of App list them.
OwnPaths ==
  [teacher |-> {"/dashboard", "/papers", "/feedback", "/students",
                "/settings"},
   parent  |-> {"/dashboard", "/progress", "/messages", "/settings"},
   student |-> {"/dashboard", "/my-progress", "/assignments", "/settings"}]

OwnPages ==
  [teacher |-> {"TeacherDashboard", "StudentPapers", "AI Feedback Reports",
                "Students Management", "Settings (teacher)"},
   parent  |-> {"ParentDashboard", "Detailed Progress", "Messages",
                "Settings (parent)"},
   student |-> {"StudentDashboard", "My Progress", "Assignments",
                "Settings (student)"}]

\* C14: for the authenticated user of a role, every path outside the
\* role's own routes (those of another role and /login included) is
\* answered by a redirect to /dashboard, every own path by a page of the
\* role, and the page on screen is never a page of another role.
C14_ForeignPathsRedirect ==
  (user # null /\ user.role \in UserRole) =>
    /\ \A p \in Paths \ {"/login"} :
         LET v == DashboardLayout(user, p)
         IN  /\ p \notin OwnPaths[user.role] =>
                  v = NavigateTo("/dashboard", NoFrom)
             /\ p \in OwnPaths[user.role] =>
                  (v.kind = "page" /\ v.page \in OwnPages[user.role])
    /\ Login(user) = NavigateTo("/dashboard", NoFrom)
    /\ Screen.kind = "page" =>
         \A r \in UserRole \ {user.role} : Screen.page \notin OwnPages[r]
    /\ (~loading /\ path \notin OwnPaths[user.role]) =>
         Screen = NavigateTo("/dashboard", NoFrom)

\* C14 witness: a parent asks for /papers and is sent to /dashboard.
C14_Witness ==
  /\ user = mockUsers.parent
  /\ ~loading
  /\ path = "/papers"
  /\ Screen = NavigateTo("/dashboard", NoFrom)

\* C15: past the loading and isAuthenticated checks, ProtectedRoute with a
\* list of roles redirects a user whose role is not listed to /dashboard
\* instead of the children, and gives the children to a user whose role is
\* listed and to any authenticated user when no list is given.
C15_AllowedRoles ==
  (~loading /\ user # null) =>
    \A p \in Paths \ {"/login"} :
      LET children == DashboardLayout(user, p)
      IN  /\ ProtectedRoute(loading, user, NoRoles, p) = children
          /\ user.role \in UserRole =>
               \A roles \in SUBSET UserRole :
                 LET out == ProtectedRoute(loading, user, roles, p)
                 IN  /\ user.role \notin roles =>
                          /\ out = NavigateTo("/dashboard", NoFrom)
                          /\ children.kind = "page" => out # children
                     /\ user.role \in roles => out = children

\* C15 witness: a parent on the own /progress page, which a route for
\* teachers only would have answered by a redirect to /dashboard.
C15_Witness ==
  /\ ~loading
  /\ user = mockUsers.parent
  /\ path = "/progress"
  /\ Screen = Page("Detailed Progress", menuItems.parent)
  /\ ProtectedRoute(loading, user, {"teacher"}, path)
       = NavigateTo("/dashboard", NoFrom)
  /\ ProtectedRoute(loading, user, {"parent", "student"}, path) = Screen

\* C16: with a user, /login never shows the form but redirects to
\* /dashboard, and that redirect is what the login step that sets the user
\* leaves on screen.
C16_LoginRedirectsWhenAuthenticated ==
  [][/\ (user' # null /\ path' = "/login") =>
          Screen' = NavigateTo("/dashboard", NoFrom)
     /\ (LoginCompletes /\ user' # null /\ path = "/login") =>
          (path' = "/login" /\ Screen'.kind = "redirect"
             /\ Screen'.to = "/dashboard")]_vars

\* C16 witness: the login of a teacher has just completed on /login.
C16_Witness ==
  /\ path = "/login"
  /\ user = mockUsers.teacher
  /\ toast = "Welcome to EduBridge!"
  /\ Screen = NavigateTo("/dashboard", NoFrom)

\* C17: an unauthenticated visit to a protected path P is redirected to
\* /login with P as the return location, and once a user is there on /login
\* with a return location the application navigates to it.
C17_ReturnUrl ==
  /\ (~crashed /\ ~loading /\ user = null /\ path # "/login") =>
       Screen = NavigateTo("/login", path)
  /\ (~crashed /\ user # null /\ path = "/login" /\ navFrom # NoFrom) =>
       (Screen.kind = "redirect" /\ Screen.to = navFrom)

\* C18: every URL of a role's sidebar menu is a route of that role in
\* DashboardRouter, so the layout answers it with a page and not with the
\* wildcard redirect, and /dashboard and /settings are in all three menus.
C18_MenuUrlsAreRoutes ==
  /\ \A r \in UserRole :
       /\ \A i \in 1..Len(menuItems[r]) :
            /\ menuItems[r][i] \in DOMAIN roleRoutes[r]
            /\ DashboardLayout(mockUsers[r], menuItems[r][i]).kind = "page"
       /\ \E i \in 1..Len(menuItems[r]) : menuItems[r][i] = "/dashboard"
       /\ \E i \in 1..Len(menuItems[r]) : menuItems[r][i] = "/settings"
  /\ Screen.kind = "page" =>
       \A i \in 1..Len(Screen.menu) :
         App(loading, user, Screen.menu[i]).kind = "page"

\* C18 witness: a student on a page reached from the menu, with the
\* student menu beside it.
C18_Witness ==
  /\ user = mockUsers.student
  /\ path = "/assignments"
  /\ Screen = Page("Assignments", menuItems.student)

\* The element that is on screen once the redirects from path p have been
\* followed, at most n of them.
MaxRedirects == 3

RECURSIVE FollowRedirects(_, _, _, _)
FollowRedirects(ld, u, p, n) ==
  LET e == App(ld, u, p)
  IN  IF e.kind = "redirect" /\ n > 0
      THEN FollowRedirects(ld, u, e.to, n - 1)
      ELSE e

\* C19: in every authentication state and for every path the redirects
\* of Login, ProtectedRoute and DashboardRouter end at something rendered:
\* a page, the login form or the loading spinner.
C19_RedirectsEndAtPage ==
  ~crashed =>
    \A p \in Paths :
      FollowRedirects(loading, user, p, MaxRedirects).kind
        \in {"page", "form", "spinner"}

\* C20: loading is true before the session check, false after it whatever
\* the saved entry holds, and from then on true only while a login is in
\* progress.
C20_LoadingOnlyWhileLoggingIn ==
  /\ ~mounted => loading
  /\ mounted => (loading => loginPc = "waiting")

====
